---- MODULE Spec2Model ----
(***************************************************************************)
(* A model of pdf_to_mcq.py (IntellektAI): the page selector, the chunker, *)
(* the MCQ generator's response handling, and the two button handlers      *)
(* (Generate MCQs, Search) acting on the session's mcq_db.                 *)
(*                                                                         *)
(* Strings are sequences of one-character strings.  A model response is a  *)
(* sequence of lexical tokens: "[", "]", ",", one token per JSON object    *)
(* text, "S" for a JSON string literal, and "x" for text that is not JSON. *)
(***************************************************************************)
EXTENDS Integers, Sequences, FiniteSets, TLC

VARIABLES
    mcq_db,          \* st.session_state.mcq_db
    pc,              \* position of the running script / pure-function harness
    uploaded_file,   \* whether the uploader holds a file
    document,        \* the uploaded document: a sequence of page texts
    page_range,      \* the page range text input
    total_pages,     \* pdf_doc.page_count
    selected_pages,  \* result of parse_page_range
    text,            \* the extracted text
    chunk_size,      \* sidebar value
    chunks,          \* result of split_text_into_chunks
    idx,             \* loop index of the Generate loop (1-based)
    all_mcqs,        \* the run's aggregated list
    progress,        \* numerator of the last progress fraction, -1 when none
    pdf_doc,         \* the document handle: "none", "open", "closed"
    report,          \* the messages of the current request, in order
    response,        \* outcome of the last inference call
    outcomes,        \* history: what hf_generate_mcqs returned for each chunk
    db_before,       \* history: mcq_db when the current request started
    query,           \* search text input
    limit,           \* search "Max results"
    results,         \* the search's result list
    scanned,         \* history: whether the current request scanned mcq_db
    request          \* which button started the current script run

vars == <<mcq_db, pc, uploaded_file, document, page_range, total_pages,
          selected_pages, text, chunk_size, chunks, idx, all_mcqs, progress,
          pdf_doc, report, response, outcomes, db_before, query, limit,
          results, scanned, request>>

(***************************************************************************)
(* Bounds of the model.                                                    *)
(***************************************************************************)
MaxExprLen == 5      \* longest page-range expression enumerated
MaxPages == 3        \* largest page count enumerated for the page selector
MaxTextLen == 5      \* longest text enumerated for the chunker
MaxSize == 3         \* largest chunk size enumerated for the chunker
MaxResp == 5         \* longest response (in tokens) enumerated
MaxDocPages == 2     \* most pages of an uploaded document
MaxStore == 3        \* Generate is clicked only while mcq_db is shorter
MaxQueryLen == 2     \* longest search query enumerated
MinSize == 2         \* smallest chunk size set in the sidebar
MaxLimit == 2        \* largest "Max results" enumerated

Min(a, b) == IF a < b THEN a ELSE b

StringsUpTo(alphabet, n) == UNION {[1..k -> alphabet] : k \in 0..n}

RangeSeq(n) == [i \in 1..n |-> i - 1]

RECURSIVE SortedSeq(_)
SortedSeq(S) ==
    IF S = {} THEN <<>>
    ELSE LET m == CHOOSE x \in S : \A y \in S : x <= y
         IN <<m>> \o SortedSeq(S \ {m})

RECURSIVE Flatten(_)
Flatten(ss) == IF ss = <<>> THEN <<>> ELSE Head(ss) \o Flatten(Tail(ss))

(***************************************************************************)
(* parse_page_range                                                        *)
(***************************************************************************)
Digits == {"0", "1", "2"}
ExprChars == Digits \cup {"-", ",", "a", " "}

DigitValue(c) == CASE c = "0" -> 0 [] c = "1" -> 1 [] c = "2" -> 2

\* str.split(sep): the pieces between separators, empty pieces included
RECURSIVE Split(_, _)
Split(s, sep) ==
    IF \A i \in 1..Len(s) : s[i] # sep THEN <<s>>
    ELSE LET k == CHOOSE i \in 1..Len(s) :
                      s[i] = sep /\ \A j \in 1..(i - 1) : s[j] # sep
         IN <<SubSeq(s, 1, k - 1)>> \o Split(SubSeq(s, k + 1, Len(s)), sep)

\* str.strip(): without leading and trailing whitespace
RECURSIVE Strip(_)
Strip(s) ==
    IF s = <<>> THEN s
    ELSE IF Head(s) = " " THEN Strip(Tail(s))
    ELSE IF s[Len(s)] = " " THEN Strip(SubSeq(s, 1, Len(s) - 1))
    ELSE s

\* int(s) ignores surrounding whitespace, succeeds on a non-empty run of
\* digits and raises ValueError otherwise
IntOk(s) ==
    LET d == Strip(s) IN Len(d) > 0 /\ \A i \in 1..Len(d) : d[i] \in Digits

RECURSIVE DigitsValue(_)
DigitsValue(d) ==
    IF d = <<>> THEN 0
    ELSE 10 * DigitsValue(SubSeq(d, 1, Len(d) - 1)) + DigitValue(d[Len(d)])

IntValue(s) == DigitsValue(Strip(s))

\* a variant with range(start, end) in place of range(start-1, end)
PartPagesOffByOne(part) ==
    IF \E i \in 1..Len(part) : part[i] = "-"
    THEN LET ps == Split(part, "-")
         IN IF Len(ps) = 2 /\ IntOk(ps[1]) /\ IntOk(ps[2])
            THEN [raised |-> FALSE,
                  pages |-> IntValue(ps[1])..(IntValue(ps[2]) - 1)]
            ELSE [raised |-> TRUE, pages |-> {}]
    ELSE IF IntOk(part)
         THEN [raised |-> FALSE, pages |-> {IntValue(part) - 1}]
         ELSE [raised |-> TRUE, pages |-> {}]

\* one iteration of the for loop: the indices a part adds, or a raised error
PartPages(part) ==
    IF \E i \in 1..Len(part) : part[i] = "-"
    THEN LET ps == Split(part, "-")
         IN IF Len(ps) = 2 /\ IntOk(ps[1]) /\ IntOk(ps[2])
            THEN [raised |-> FALSE,
                  pages |-> (IntValue(ps[1]) - 1)..(IntValue(ps[2]) - 1)]
            ELSE [raised |-> TRUE, pages |-> {}]
    ELSE IF IntOk(part)
         THEN [raised |-> FALSE, pages |-> {IntValue(part) - 1}]
         ELSE [raised |-> TRUE, pages |-> {}]

\* a variant with the try/except inside the loop: a bad part is skipped
LoopPagesSkipBad(page_range_str) ==
    LET parts == Split(page_range_str, ",")
        each == [i \in 1..Len(parts) |-> PartPages(parts[i])]
    IN [raised |-> FALSE,
        pages |-> UNION {each[i].pages : i \in 1..Len(parts)}]

\* the try block: the set built by the loop, or the first error raised
LoopPages(page_range_str) ==
    LET parts == Split(page_range_str, ",")
        each == [i \in 1..Len(parts) |-> PartPages(parts[i])]
    IN [raised |-> \E i \in 1..Len(parts) : each[i].raised,
        pages |-> UNION {each[i].pages : i \in 1..Len(parts)}]

parse_page_range(page_range_str, n) ==
    IF page_range_str = <<>> THEN [raised |-> FALSE, value |-> RangeSeq(n)]
    ELSE LET r == LoopPages(page_range_str)
         IN IF r.raised
            THEN [raised |-> FALSE, value |-> RangeSeq(n)]
            ELSE [raised |-> FALSE,
                  value |-> SortedSeq({p \in r.pages : 0 <= p /\ p < n})]

(***************************************************************************)
(* split_text_into_chunks                                                  *)
(***************************************************************************)
TextChars == {"a", "b", " "}

\* a variant with range(0, len(text) - size + 1, size): no short last chunk
SplitDropTail(t, size) ==
    LET n == Len(t) \div size
    IN [k \in 1..n |-> SubSeq(t, (k - 1) * size + 1, k * size)]

\* text[i:i+size] for i in range(0, len(text), size)
split_text_into_chunks(t, size) ==
    LET starts == {i \in 0..(Len(t) - 1) : i % size = 0}
        n == Cardinality(starts)
    IN [k \in 1..n |-> SubSeq(t, (k - 1) * size + 1, Min(k * size, Len(t)))]

(***************************************************************************)
(* hf_generate_mcqs                                                        *)
(***************************************************************************)
ObjTokens == {"A", "B", "C"}
Tokens == {"[", "]", ",", "x", "S"} \cup ObjTokens

\* the dict json.loads builds from an object text; C has no "question" key
ObjectOf(tok) ==
    CASE tok = "A" -> [question |-> <<"L", "a">>, correct_option |-> 0]
      [] tok = "B" -> [question |-> <<"b">>, correct_option |-> 1]
      [] tok = "C" -> [correct_option |-> 0]

\* a JSON array nested inside the top-level array, as a Python list
ListValue(items) == [list |-> items]

\* the Python str json.loads builds from the string literal S
StrValue == [str |-> <<"a">>]

\* whether a value json.loads built is a dict (has .get)
IsDict(v) == "list" \notin DOMAIN v /\ "str" \notin DOMAIN v

ParseFail == [ok |-> FALSE, val |-> <<>>, next |-> 0]

\* the JSON grammar on tokens:
\*   value ::= object | string | array
\*   array ::= "[" "]" | "[" value ("," value)* "]"
RECURSIVE ParseValue(_, _), ParseItems(_, _, _)
ParseValue(s, i) ==
    IF i > Len(s) THEN ParseFail
    ELSE IF s[i] \in ObjTokens
         THEN [ok |-> TRUE, val |-> ObjectOf(s[i]), next |-> i + 1]
    ELSE IF s[i] = "S"
         THEN [ok |-> TRUE, val |-> StrValue, next |-> i + 1]
    ELSE IF s[i] = "["
         THEN IF i + 1 <= Len(s) /\ s[i + 1] = "]"
              THEN [ok |-> TRUE, val |-> ListValue(<<>>), next |-> i + 2]
              ELSE ParseItems(s, i + 1, <<>>)
    ELSE ParseFail

ParseItems(s, i, acc) ==
    LET v == ParseValue(s, i)
    IN IF ~v.ok \/ v.next > Len(s) THEN ParseFail
       ELSE IF s[v.next] = ","
            THEN ParseItems(s, v.next + 1, Append(acc, v.val))
       ELSE IF s[v.next] = "]"
            THEN [ok |-> TRUE, val |-> ListValue(Append(acc, v.val)),
                  next |-> v.next + 1]
       ELSE ParseFail

\* json.loads: the whole string must be one value, else JSONDecodeError
json_loads(s) ==
    LET v == ParseValue(s, 1)
    IN IF v.ok /\ v.next = Len(s) + 1
       THEN [raised |-> FALSE,
             value |-> IF "list" \in DOMAIN v.val THEN v.val.list ELSE v.val]
       ELSE [raised |-> TRUE, value |-> <<>>]

\* re.search(r"\[.*\]", text_out, re.DOTALL): leftmost "[", then greedy to
\* the last "]" after it
re_search(text_out) ==
    LET opens == {i \in 1..Len(text_out) : text_out[i] = "["}
    IN IF opens = {} THEN [found |-> FALSE, group |-> <<>>]
       ELSE LET first == CHOOSE i \in opens : \A j \in opens : i <= j
                closes == {j \in (first + 1)..Len(text_out) : text_out[j] = "]"}
            IN IF closes = {} THEN [found |-> FALSE, group |-> <<>>]
               ELSE LET last == CHOOSE j \in closes : \A k \in closes : k <= j
                    IN [found |-> TRUE, group |-> SubSeq(text_out, first, last)]

\* the try block: the list returned, or the exception raised in it
GenerateBody(resp) ==
    IF resp.raised THEN [raised |-> TRUE, value |-> <<>>]
    ELSE LET text_out == resp.content
             match == re_search(text_out)
             json_str == IF match.found THEN match.group ELSE <<"[", "]">>
         IN json_loads(json_str)

\* a variant whose except clause catches json.JSONDecodeError only
GenerateNarrowExcept(resp) ==
    LET r == GenerateBody(resp)
    IN IF resp.raised
       THEN [raised |-> TRUE, error |-> FALSE, value |-> <<>>]
       ELSE IF r.raised
            THEN [raised |-> FALSE, error |-> TRUE, value |-> <<>>]
            ELSE [raised |-> FALSE, error |-> FALSE, value |-> r.value]

\* except Exception: st.error(...); return []
hf_generate_mcqs(resp) ==
    LET r == GenerateBody(resp)
    IN IF r.raised
       THEN [raised |-> FALSE, error |-> TRUE, value |-> <<>>]
       ELSE [raised |-> FALSE, error |-> FALSE, value |-> r.value]

Responses(n) ==
    {[raised |-> TRUE, content |-> <<>>]} \cup
    {[raised |-> FALSE, content |-> c] : c \in StringsUpTo(Tokens, n)}

(***************************************************************************)
(* The functions on their own: each specification draws the function's     *)
(* inputs in its initial state and applies the function in one step.       *)
(***************************************************************************)
NoResponse == [raised |-> FALSE, content |-> <<>>]

\* the variables of the session that the function harnesses leave alone
SessionInit ==
    /\ mcq_db = <<>>
    /\ uploaded_file = FALSE
    /\ document = <<>>
    /\ idx = 0
    /\ all_mcqs = <<>>
    /\ progress = -1
    /\ pdf_doc = "none"
    /\ db_before = <<>>
    /\ query = <<>>
    /\ limit = 1
    /\ results = <<>>
    /\ scanned = FALSE
    /\ request = "none"

SessionVars == <<mcq_db, uploaded_file, document, idx, all_mcqs, progress,
                 pdf_doc, db_before, query, limit, results, scanned, request>>

InitPages ==
    /\ SessionInit
    /\ pc = "pages_in"
    /\ page_range \in StringsUpTo(ExprChars, MaxExprLen)
    /\ total_pages \in 0..MaxPages
    /\ selected_pages = <<>>
    /\ text = <<>> /\ chunk_size = 1 /\ chunks = <<>>
    /\ report = <<>> /\ response = NoResponse /\ outcomes = <<>>

ParsePages ==
    /\ pc = "pages_in"
    /\ LET r == parse_page_range(page_range, total_pages)
       IN /\ selected_pages' = r.value
          /\ report' = IF r.raised THEN <<"exception">> ELSE <<>>
    /\ pc' = "pages_out"
    /\ UNCHANGED <<SessionVars, page_range, total_pages, text, chunk_size,
                   chunks, response, outcomes>>

SpecPages == InitPages /\ [][ParsePages]_vars

InitChunks ==
    /\ SessionInit
    /\ pc = "chunks_in"
    /\ text \in StringsUpTo(TextChars, MaxTextLen)
    /\ chunk_size \in 1..MaxSize
    /\ chunks = <<>>
    /\ page_range = <<>> /\ total_pages = 0 /\ selected_pages = <<>>
    /\ report = <<>> /\ response = NoResponse /\ outcomes = <<>>

SplitText ==
    /\ pc = "chunks_in"
    /\ chunks' = split_text_into_chunks(text, chunk_size)
    /\ pc' = "chunks_out"
    /\ UNCHANGED <<SessionVars, page_range, total_pages, selected_pages, text,
                   chunk_size, report, response, outcomes>>

SpecChunks == InitChunks /\ [][SplitText]_vars

InitGen ==
    /\ SessionInit
    /\ pc = "gen_in"
    /\ response \in Responses(MaxResp)
    /\ outcomes = <<>>
    /\ report = <<>>
    /\ page_range = <<>> /\ total_pages = 0 /\ selected_pages = <<>>
    /\ text = <<>> /\ chunk_size = 1 /\ chunks = <<>>

\* one call of hf_generate_mcqs on a chunk whose inference call ends as
\* `response` says
CallGenerator ==
    /\ pc = "gen_in"
    /\ LET r == hf_generate_mcqs(response)
       IN /\ outcomes' = <<r>>
          /\ report' = (IF r.error THEN <<"api_error">> ELSE <<>>)
                       \o (IF r.raised THEN <<"exception">> ELSE <<>>)
    /\ pc' = "gen_out"
    /\ UNCHANGED <<SessionVars, page_range, total_pages, selected_pages, text,
                   chunk_size, chunks, response>>

SpecGen == InitGen /\ [][CallGenerator]_vars

(***************************************************************************)
(* Properties of the page selector                                         *)
(***************************************************************************)
\* the comma-separated parts of an expression, as index pairs <<from, to>>
PartsOf(e) ==
    {seg \in (1..(Len(e) + 1)) \X (0..Len(e)) :
        /\ seg[1] <= seg[2] + 1
        /\ seg[1] = 1 \/ e[seg[1] - 1] = ","
        /\ seg[2] = Len(e) \/ e[seg[2] + 1] = ","
        /\ \A i \in seg[1]..seg[2] : e[i] # ","}

PartText(e, seg) == SubSeq(e, seg[1], seg[2])

\* a part that denotes an integer: digits, possibly between blanks
IsInteger(p) ==
    \E i \in 1..Len(p) : \E j \in i..Len(p) :
        /\ \A k \in i..j : p[k] \in Digits
        /\ \A k \in (1..Len(p)) \ (i..j) : p[k] = " "

RECURSIVE Decimal(_, _)
Decimal(p, acc) ==
    IF p = <<>> THEN acc
    ELSE IF Head(p) = " " THEN Decimal(Tail(p), acc)
    ELSE Decimal(Tail(p), 10 * acc + DigitValue(Head(p)))

IsIntegerPair(p) ==
    \E k \in 1..Len(p) :
        /\ p[k] = "-"
        /\ IsInteger(SubSeq(p, 1, k - 1))
        /\ IsInteger(SubSeq(p, k + 1, Len(p)))

MalformedPart(p) == ~IsInteger(p) /\ ~IsIntegerPair(p)

HasMalformedPart(e) == \E seg \in PartsOf(e) : MalformedPart(PartText(e, seg))

\* the zero-based indices a well-formed part names
NamedByPart(p) ==
    IF IsInteger(p) THEN {Decimal(p, 0) - 1}
    ELSE LET k == CHOOSE i \in 1..Len(p) : p[i] = "-"
         IN {n - 1 : n \in Decimal(SubSeq(p, 1, k - 1), 0)..
                           Decimal(SubSeq(p, k + 1, Len(p)), 0)}

NamedBy(e) == UNION {NamedByPart(PartText(e, seg)) : seg \in PartsOf(e)}

\* C3: an expression with a malformed part, wherever the part stands, gives
\* what the empty expression gives, the pages 0..N-1, and raises nothing.
C3_MalformedFallsBack ==
    (pc = "pages_out" /\ HasMalformedPart(page_range)) =>
        /\ selected_pages = RangeSeq(total_pages)
        /\ selected_pages = parse_page_range(<<>>, total_pages).value
        /\ report = <<>>

C3_Witness ==
    /\ pc = "pages_out"
    /\ page_range = <<"1", ",", "a", ",", "2">>
    /\ total_pages = 3
    /\ selected_pages = <<0, 1, 2>>

\* C4: a valid expression gives a strictly increasing list of indices within
\* [0, total_pages): exactly the in-bounds indices its parts name.
C4_ValidSelectsNamed ==
    (pc = "pages_out" /\ page_range # <<>> /\ ~HasMalformedPart(page_range)) =>
        /\ \A i \in 1..(Len(selected_pages) - 1) :
               selected_pages[i] < selected_pages[i + 1]
        /\ \A i \in 1..Len(selected_pages) :
               0 <= selected_pages[i] /\ selected_pages[i] < total_pages
        /\ {selected_pages[i] : i \in 1..Len(selected_pages)}
               = NamedBy(page_range) \cap (0..(total_pages - 1))
        /\ report = <<>>

C4_Witness ==
    /\ pc = "pages_out"
    /\ page_range = <<"0", "-", "2", ",", "1">>
    /\ total_pages = 3
    /\ selected_pages = <<0, 1>>

(***************************************************************************)
(* Properties of the chunker                                               *)
(***************************************************************************)
\* C5: the chunks concatenate to the text; all but the last have length
\* size, the last has length 1..size; the empty text has no chunks.
C5_ChunksPartitionText ==
    pc = "chunks_out" =>
        /\ Flatten(chunks) = text
        /\ \A k \in 1..(Len(chunks) - 1) : Len(chunks[k]) = chunk_size
        /\ chunks # <<>> =>
               /\ 1 <= Len(chunks[Len(chunks)])
               /\ Len(chunks[Len(chunks)]) <= chunk_size
        /\ text = <<>> => chunks = <<>>

C5_Witness ==
    /\ pc = "chunks_out"
    /\ text = <<"a", "b", " ", "a", "b">>
    /\ chunk_size = 2
    /\ chunks = <<(<<"a", "b">>), (<<" ", "a">>), (<<"b">>)>>

(***************************************************************************)
(* Properties of the generator                                             *)
(***************************************************************************)
HasBracketPair(c) ==
    \E i \in 1..Len(c) : \E j \in (i + 1)..Len(c) : c[i] = "[" /\ c[j] = "]"

\* C2: the generator never raises; a failed inference call or a payload that
\* does not deserialize is reported and gives []; a response without
\* "[" ... "]" gives [] and reports nothing.
C2_GeneratorNeverRaises ==
    pc = "gen_out" =>
        LET r == outcomes[1]
        IN /\ ~r.raised
           /\ "exception" \notin {report[i] : i \in 1..Len(report)}
           /\ response.raised => (report = <<"api_error">> /\ r.value = <<>>)
           /\ (~response.raised /\ HasBracketPair(response.content)
                 /\ json_loads(re_search(response.content).group).raised)
                 => (report = <<"api_error">> /\ r.value = <<>>)
           /\ (~response.raised /\ ~HasBracketPair(response.content))
                 => (report = <<>> /\ r.value = <<>>)

C2_Witness ==
    /\ pc = "gen_out"
    /\ response = [raised |-> FALSE, content |-> <<"x", "[", "A", "x", "]">>]
    /\ report = <<"api_error">>
    /\ outcomes[1].value = <<>>

(***************************************************************************)
(* The session: the script reruns on every button click.                   *)
(***************************************************************************)
\* the documents a user uploads: one or more pages of extractable text
PageTexts == {<<" ">>, <<"a", "b", " ">>}
Documents == UNION {[1..k -> PageTexts] : k \in 1..MaxDocPages}
PageRanges == {<<>>, <<"2">>, <<"1", ",", "a">>, <<"0">>, <<"2", ",", "1">>}
ChunkSizes == MinSize..MaxSize

\* how the inference call for one chunk can end
ChunkResponses ==
    {[raised |-> TRUE, content |-> <<>>]} \cup
    {[raised |-> FALSE, content |-> c] : c \in
        {<<>>, <<"x">>, <<"[", "]">>, <<"[", "A", "]">>,
         <<"x", "[", "B", "]", "x">>, <<"[", "A", ",", "C", "]">>,
         <<"[", "A", "x", "]">>, <<"[", "S", "]">>}}

QueryChars == {"l", "A", "b", " "}
Queries == StringsUpTo(QueryChars, MaxQueryLen)

\* str.lower()
LowerChar(c) == CASE c = "L" -> "l" [] c = "A" -> "a" [] OTHER -> c
Lower(s) == [i \in 1..Len(s) |-> LowerChar(s[i])]

\* needle in hay
Contains(hay, needle) ==
    \E off \in 0..(Len(hay) - Len(needle)) :
        SubSeq(hay, off + 1, off + Len(needle)) = needle

\* "".join(pdf_doc[i].get_text("text") for i in selected_pages)
ExtractedText(doc, pages) ==
    Flatten([k \in 1..Len(pages) |-> doc[pages[k] + 1]])

\* a variant with "if not text"
IsEmptyText(t) == t = <<>>

\* if not text.strip()
IsBlankText(t) == Strip(t) = <<>>

\* a variant with "all_mcqs = mcqs"
AggregateOverwrite(all, mcqs) == mcqs

\* all_mcqs.extend(mcqs)
Aggregate(all, mcqs) == all \o mcqs

\* a variant with "st.session_state.mcq_db = all_mcqs"
StoreReplace(db, recs) == recs

\* st.session_state.mcq_db.extend(all_mcqs)
StoreExtend(db, recs) == db \o recs

\* mcq.get("question", "")
QuestionOf(mcq) == IF "question" \in DOMAIN mcq THEN mcq.question ELSE <<>>

\* the loop calls mcq.get on every element: a str or a list has no .get
DisplayRaises(mcqs) == \E i \in 1..Len(mcqs) : ~IsDict(mcqs[i])

\* [mcq for mcq in mcq_db if query.lower() in mcq.get(...).lower()][:limit]
SearchResults(db, q, lim) ==
    LET hits == SelectSeq(db, LAMBDA mcq : Contains(Lower(QuestionOf(mcq)), Lower(q)))
    IN SubSeq(hits, 1, Min(lim, Len(hits)))

Init ==
    /\ SessionInit
    /\ pc = "idle"
    /\ page_range = <<>> /\ total_pages = 0 /\ selected_pages = <<>>
    /\ text = <<>> /\ chunk_size = MaxSize /\ chunks = <<>>
    /\ report = <<>> /\ response = NoResponse /\ outcomes = <<>>

\* a button click starts a rerun of the script
Rerun(kind) ==
    /\ pc = "idle"
    /\ request' = kind
    /\ db_before' = mcq_db

\* "Generate MCQs" clicked with no file in the uploader
GenerateNoFile ==
    /\ Rerun("generate")
    /\ Len(mcq_db) < MaxStore
    /\ uploaded_file' = FALSE
    /\ page_range' \in PageRanges
    /\ chunk_size' \in ChunkSizes
    /\ report' = <<"error_upload">>
    /\ pc' = "done"
    /\ UNCHANGED <<mcq_db, document, total_pages, selected_pages, text, chunks,
                   idx, all_mcqs, progress, pdf_doc, response, outcomes,
                   query, limit, results, scanned>>

\* "Generate MCQs" clicked with a file: fitz.open, page_count and
\* parse_page_range; the text extraction is pending
GenerateOpen ==
    /\ Rerun("generate")
    /\ Len(mcq_db) < MaxStore
    /\ uploaded_file' = TRUE
    /\ document' \in Documents
    /\ page_range' \in PageRanges
    /\ chunk_size' \in ChunkSizes
    /\ pdf_doc' = "open"
    /\ total_pages' = Len(document')
    /\ selected_pages' = parse_page_range(page_range', total_pages').value
    /\ pc' = "extract"
    /\ UNCHANGED <<mcq_db, text, chunks, idx, all_mcqs, progress, report,
                   response, outcomes, query, limit, results, scanned>>

\* get_text returned for every selected page: close the handle, then either
\* report that there is no text or chunk it and enter the loop; the first
\* iteration sets the progress bar and calls the generator
ExtractDone ==
    /\ pc = "extract"
    /\ text' = ExtractedText(document, selected_pages)
    /\ pdf_doc' = "closed"
    /\ IF IsBlankText(text')
       THEN /\ report' = <<"error_notext">>
            /\ pc' = "done"
            /\ UNCHANGED <<chunks, idx, progress>>
       ELSE /\ chunks' = split_text_into_chunks(text', chunk_size)
            /\ report' = <<"info_split">>
            /\ idx' = 1
            /\ progress' = 1
            /\ pc' = "call"
    /\ UNCHANGED <<mcq_db, uploaded_file, document, page_range, total_pages,
                   selected_pages, chunk_size, all_mcqs, response, outcomes,
                   db_before, query, limit, results, scanned, request>>

\* get_text raised: the exception ends the script run at line 117
ExtractRaises ==
    /\ pc = "extract"
    /\ selected_pages # <<>>
    /\ report' = <<"exception">>
    /\ pc' = "done"
    /\ UNCHANGED <<mcq_db, uploaded_file, document, page_range, total_pages,
                   selected_pages, text, chunk_size, chunks, idx, all_mcqs,
                   progress, pdf_doc, response, outcomes, db_before, query,
                   limit, results, scanned, request>>

\* the end of the handler, after the loop: progress.empty(), then the
\* store is extended and the run's MCQs are displayed, or a warning is shown
FinishRun(all, said) ==
    /\ progress' = -1
    /\ pc' = "done"
    /\ idx' = idx
    /\ IF all # <<>>
       THEN /\ mcq_db' = StoreExtend(mcq_db, all)
            /\ report' = said \o <<"success">> \o
                   (IF DisplayRaises(all) THEN <<"exception">> ELSE <<"download">>)
       ELSE /\ mcq_db' = mcq_db
            /\ report' = said \o <<"warning_none">>

\* the next iteration: the progress bar is set, then the generator is called
NextChunk(said) ==
    /\ idx' = idx + 1
    /\ progress' = idx + 1
    /\ pc' = "call"
    /\ report' = said
    /\ mcq_db' = mcq_db

\* the inference call of chunk idx ends; hf_generate_mcqs returns, the
\* result is aggregated, and the loop goes on or the handler finishes
GeneratorReturns ==
    /\ pc = "call"
    /\ \E resp \in ChunkResponses :
        LET r == hf_generate_mcqs(resp)
            all == Aggregate(all_mcqs, r.value)
            said == report \o (IF r.error THEN <<"api_error">> ELSE <<>>)
        IN /\ response' = resp
           /\ outcomes' = Append(outcomes, [chunk |-> chunks[idx],
                                             error |-> r.error,
                                             value |-> r.value])
           /\ all_mcqs' = all
           /\ IF idx < Len(chunks) THEN NextChunk(said) ELSE FinishRun(all, said)
    /\ UNCHANGED <<uploaded_file, document, page_range, total_pages,
                   selected_pages, text, chunk_size, chunks, pdf_doc,
                   db_before, query, limit, results, scanned, request>>

\* "Search" clicked
Search ==
    /\ Rerun("search")
    /\ query' \in Queries
    /\ limit' \in 1..MaxLimit
    /\ scanned' = (Strip(query') # <<>>)
    /\ IF Strip(query') # <<>>
       THEN IF DisplayRaises(mcq_db)
            THEN results' = <<>> /\ report' = <<"exception">>
            ELSE /\ results' = SearchResults(mcq_db, query', limit')
                 /\ report' = IF results' # <<>> THEN <<"found">>
                              ELSE <<"no_results">>
       ELSE /\ results' = <<>>
            /\ report' = <<"warn_keyword">>
    /\ pc' = "done"
    /\ UNCHANGED <<mcq_db, uploaded_file, document, page_range, total_pages,
                   selected_pages, text, chunk_size, chunks, idx, all_mcqs,
                   progress, pdf_doc, response, outcomes>>

\* the script run is over: its locals and its output are gone with the next
\* rerun, only st.session_state stays
ScriptEnds ==
    /\ pc = "done"
    /\ pc' = "idle"
    /\ uploaded_file' = FALSE /\ document' = <<>>
    /\ page_range' = <<>> /\ total_pages' = 0 /\ selected_pages' = <<>>
    /\ text' = <<>> /\ chunk_size' = MaxSize /\ chunks' = <<>>
    /\ idx' = 0 /\ all_mcqs' = <<>> /\ progress' = -1 /\ pdf_doc' = "none"
    /\ report' = <<>> /\ response' = NoResponse /\ outcomes' = <<>>
    /\ query' = <<>> /\ limit' = 1 /\ results' = <<>> /\ scanned' = FALSE
    /\ request' = "none"
    /\ db_before' = mcq_db
    /\ UNCHANGED mcq_db

Next ==
    \/ GenerateNoFile
    \/ GenerateOpen
    \/ ExtractDone
    \/ ExtractRaises
    \/ GeneratorReturns
    \/ Search
    \/ ScriptEnds

Spec == Init /\ [][Next]_vars

(***************************************************************************)
(* Properties of the session                                               *)
(***************************************************************************)
IsPrefix(a, b) == Len(a) <= Len(b) /\ SubSeq(b, 1, Len(a)) = a

SucceededRecords(o) == IF o.error THEN <<>> ELSE o.value

\* C1: a Generate run calls the generator on every chunk, in order, and its
\* aggregate is the concatenation, in chunk order, of what the successful
\* calls returned; a failed call adds nothing and the loop goes on.
C1_AggregateIsConcatenation ==
    (request = "generate" /\ pc \in {"call", "done"}) =>
        /\ Len(outcomes) <= Len(chunks)
        /\ \A k \in 1..Len(outcomes) : outcomes[k].chunk = chunks[k]
        /\ all_mcqs = Flatten([k \in 1..Len(outcomes) |->
                                   SucceededRecords(outcomes[k])])
        /\ pc = "call" => (idx <= Len(chunks) /\ Len(outcomes) = idx - 1)
        /\ (pc = "done" /\ chunks # <<>>) => Len(outcomes) = Len(chunks)

C1_Witness ==
    /\ pc = "done" /\ request = "generate"
    /\ Len(chunks) = 3
    /\ outcomes[1].value # <<>>
    /\ outcomes[2].error
    /\ outcomes[3].value # <<>>
    /\ all_mcqs = outcomes[1].value \o outcomes[3].value

\* C7: with no file, or with blank extracted text, Generate reports an error
\* and neither chunks, nor calls the generator, nor changes the store; with
\* a blank query Search warns and scans nothing.
C7_InputErrorsAbort ==
    /\ (pc = "done" /\ request = "generate" /\ ~uploaded_file) =>
           /\ report = <<"error_upload">>
           /\ chunks = <<>> /\ outcomes = <<>> /\ mcq_db = db_before
    /\ (request = "generate" /\ pdf_doc = "closed"
          /\ \A i \in 1..Len(text) : text[i] = " ") =>
           /\ pc = "done"
           /\ report = <<"error_notext">>
           /\ chunks = <<>> /\ outcomes = <<>> /\ mcq_db = db_before
    /\ (pc = "done" /\ request = "search"
          /\ \A i \in 1..Len(query) : query[i] = " ") =>
           /\ report = <<"warn_keyword">>
           /\ ~scanned /\ results = <<>> /\ mcq_db = db_before

C7_Witness ==
    /\ pc = "done" /\ request = "generate"
    /\ uploaded_file
    /\ pdf_doc = "closed"
    /\ text = <<" ", " ">>
    /\ report = <<"error_notext">>

\* C8: the progress fraction k/n is shown only after the generator call of
\* chunk k has returned.
C8_ProgressAfterChunk ==
    (request = "generate" /\ progress >= 1) => Len(outcomes) >= progress

\* C9: the store only grows at its end: every step leaves the old store a
\* prefix of the new one, a search or an empty or failed run leaves it
\* unchanged, and a run with records appends the run's aggregate once.
C9_StoreAppendOnly ==
    [][/\ IsPrefix(mcq_db, mcq_db')
       /\ (request' = "search" \/ pc' # "done") => mcq_db' = mcq_db
       /\ (request' = "generate" /\ pc = "call" /\ pc' = "done") =>
              mcq_db' = mcq_db \o all_mcqs'
       /\ pc # "call" => mcq_db' = mcq_db]_vars

C9_Witness ==
    /\ pc = "done" /\ request = "generate"
    /\ db_before # <<>>
    /\ Len(all_mcqs) >= 2
    /\ mcq_db = db_before \o all_mcqs

\* C10: a Generate request that opened the document has closed it when the
\* request ends, whether or not the extraction failed.
C10_HandleClosedAtEnd ==
    (pc = "done" /\ request = "generate" /\ uploaded_file) => pdf_doc = "closed"

(***************************************************************************)
(* Properties of the search                                                *)
(***************************************************************************)
FoldCase(c) == IF c = "L" THEN "l" ELSE IF c = "A" THEN "a" ELSE c

\* the question of a record contains the query, case-insensitively
Matches(mcq, q) ==
    LET t == IF "question" \in DOMAIN mcq THEN mcq.question ELSE <<>>
    IN \E off \in 0..(Len(t) - Len(q)) :
           \A j \in 1..Len(q) : FoldCase(t[off + j]) = FoldCase(q[j])

MatchingIndexes(db, q) == {i \in 1..Len(db) : Matches(db[i], q)}

\* the first n matching records, in store order
FirstMatches(db, q, n) ==
    LET M == MatchingIndexes(db, q)
        nth(k) == CHOOSE i \in M : Cardinality({j \in M : j <= i}) = k
    IN [k \in 1..Min(n, Cardinality(M)) |-> db[nth(k)]]

\* C6: for a non-blank query Search returns the first min(limit, matches)
\* records of the store, in store order, whose question contains the query
\* case-insensitively.
C6_SearchFirstMatches ==
    (pc = "done" /\ request = "search" /\ Strip(query) # <<>>) =>
        results = FirstMatches(mcq_db, query, limit)

\* the same on a store whose entries are all dicts
SearchFirstMatchesOnDicts ==
    (pc = "done" /\ request = "search" /\ Strip(query) # <<>>
       /\ \A i \in 1..Len(mcq_db) : IsDict(mcq_db[i])) =>
        /\ report # <<"exception">>
        /\ results = FirstMatches(mcq_db, query, limit)

SearchOnDictsWitness ==
    /\ pc = "done" /\ request = "search"
    /\ query = <<"l", "A">> /\ limit = 2
    /\ \A i \in 1..Len(mcq_db) : IsDict(mcq_db[i])
    /\ Cardinality(MatchingIndexes(mcq_db, query)) >= 3
    /\ ~Matches(mcq_db[1], query)
    /\ Len(results) = 2

====
